---- MODULE Spec2Model ----
(***************************************************************************)
(* Model of rl_coach/architectures/mxnet_components/heads/q_head.py:       *)
(* the Q-value head (QHead) and its loss block (QHeadLoss).                *)
(*                                                                         *)
(* Tensors are matrices of integers; loss values are exact fractions       *)
(* <<numerator, denominator>> in lowest terms, so that the halved squared  *)
(* error and the means are computed without rounding.  An NDArray result   *)
(* is the sequence of its elements; MXNet has no zero-dimensional arrays,  *)
(* so the result of a full reduction is a one-element sequence.            *)
(***************************************************************************)
EXTENDS Integers, Sequences, FiniteSets, TLC

\* head:   the QHead under construction or in use (NoHead before a successful
\*         construction)
\* losses: the QHeadLoss objects created so far
\* batch:  the (pred, target) pair a trainer holds for the loss block
\* call:   the last call made, with its arguments
\* ret:    the value that call returned (NoValue if it raised)
\* raised: the exception that call raised ("none" if it returned)
VARIABLES head, losses, batch, call, ret, raised

vars == <<head, losses, batch, call, ret, raised>>

(* ------------------------------ bounds --------------------------------- *)
MaxActions == 2
MaxBatch == 2
MaxWidth == 2
MaxWeight == 2
MaxLosses == 2

(* --------------------------- value domains ----------------------------- *)
NoHead == [none |-> TRUE]
NoValue == <<>>

\* the loss classes of mxnet.gluon.loss a caller can pass; the first two are
\* the ones q_head.py imports
LossTypes == {"L2Loss", "HuberLoss", "L1Loss"}

\* loss_weight / weight arguments
Weights == 1..MaxWeight

\* batch_axis arguments of a two-dimensional loss input
BatchAxes == {0, 1}

\* spaces.action: a BoxActionSpace, a DiscreteActionSpace with its list of
\* actions (here its length), or an ActionSpace that is neither.  The list
\* of a DiscreteActionSpace is taken to be non-empty: q_head.py only reads
\* its length and does not check it.
DiscreteActionSpaces == {[kind |-> "DiscreteActionSpace", actions |-> k] : k \in 1..MaxActions}

ActionSpaces ==
    {[kind |-> "BoxActionSpace", actions |-> 0], [kind |-> "ActionSpace", actions |-> 0]}
        \cup DiscreteActionSpaces

LOSS_OUT_TYPE_LOSS == "loss"

\* element values of predictions and targets
PredVals == {-1, 2}
TargetVals == {0, 1}

Shapes == (1..MaxBatch) \X (1..MaxActions)

Tensors(shape, vals) == [1..shape[1] -> [1..shape[2] -> vals]]

Fill(shape, c) == [i \in 1..shape[1] |-> [j \in 1..shape[2] |-> c]]

\* the targets tried against a prediction p of the given shape: p itself and
\* the uniform tensors (the elementwise loss depends on target - pred only,
\* and pred varies per element)
Targets(shape, p) == {p} \cup {Fill(shape, c) : c \in TargetVals}

\* every (pred, target) pair of one shape
BatchesOf(shape) ==
    UNION {{[pred |-> p, target |-> t] : t \in Targets(shape, p)} :
             p \in Tensors(shape, PredVals)}

Batches == UNION {BatchesOf(shape) : shape \in Shapes}

\* the uniform predictions of one shape
UniformTensors(shape, vals) == {Fill(shape, c) : c \in vals}

(* --------------------------- exact fractions --------------------------- *)
Abs(n) == IF n < 0 THEN -n ELSE n

RECURSIVE GCD(_, _)
GCD(a, b) == IF b = 0 THEN a ELSE GCD(b, a % b)

Frac(n, d) ==
    LET g == GCD(Abs(n), d) IN <<n \div g, d \div g>>

FAdd(a, b) == Frac(a[1] * b[2] + b[1] * a[2], a[2] * b[2])

RECURSIVE FSum(_)
FSum(s) == IF s = <<>> THEN <<0, 1>> ELSE FAdd(s[1], FSum(Tail(s)))

\* NDArray.mean over a sequence of elements
Mean(s) == LET t == FSum(s) IN Frac(t[1], t[2] * Len(s))

(* ------------------------- mxnet.gluon.loss ---------------------------- *)
\* mutant: the difference taken with the wrong sign (label + pred)
Elementwise_SignSlip(kind, weight, p, t) ==
    LET d == Abs(t + p) IN
    CASE kind = "L2Loss" -> Frac(weight * d * d, 2)
      [] kind = "HuberLoss" -> IF d > 1 THEN Frac(weight * (2 * d - 1), 2)
                                        ELSE Frac(weight * d * d, 2)
      [] OTHER -> Frac(weight * d, 1)

\* elementwise loss of one (pred, label) pair after weighting
\*   L2Loss:    weight/2 * (label - pred)^2
\*   HuberLoss: rho = 1; |d| > rho -> |d| - rho/2, else d^2 / (2 rho); * weight
\*   L1Loss:    weight * |label - pred|
Elementwise(kind, weight, p, t) ==
    LET d == Abs(t - p) IN
    CASE kind = "L2Loss" -> Frac(weight * d * d, 2)
      [] kind = "HuberLoss" -> IF d > 1 THEN Frac(weight * (2 * d - 1), 2)
                                        ELSE Frac(weight * d * d, 2)
      [] OTHER -> Frac(weight * d, 1)

\* loss_fn(pred, target): the elementwise loss averaged over every axis but
\* batch_axis; the result has one element per index of batch_axis
loss_fn(fn, p, t) ==
    LET B == Len(p)
        K == Len(p[1])
        E(i, j) == Elementwise(fn.kind, fn.weight, p[i][j], t[i][j])
    IN  IF fn.batch_axis = 0
        THEN [i \in 1..B |-> Mean([j \in 1..K |-> E(i, j)])]
        ELSE [j \in 1..K |-> Mean([i \in 1..B |-> E(i, j)])]

(* ------------------------------ QHeadLoss ------------------------------ *)
QHeadLoss(loss_type, weight, batch_axis) ==
    [weight |-> weight, batch_axis |-> batch_axis,
     loss_fn |-> [kind |-> loss_type, weight |-> weight, batch_axis |-> batch_axis]]

\* mutant: the two names exchanged
input_schema_Swapped(self) ==
    [head_outputs |-> <<"target">>, agent_inputs |-> <<>>, targets |-> <<"pred">>]

input_schema(self) ==
    [head_outputs |-> <<"pred">>, agent_inputs |-> <<>>, targets |-> <<"target">>]

\* mutant: the final .mean() left out, the per-sample losses returned
loss_forward_NoMean(self, p, t) ==
    LET loss == loss_fn(self.loss_fn, p, t)
    IN  <<<<loss, LOSS_OUT_TYPE_LOSS>>>>

\* mutant: the value tagged as a regularization term
loss_forward_WrongTag(self, p, t) ==
    LET loss == <<Mean(loss_fn(self.loss_fn, p, t))>>
    IN  <<<<loss, "regularization">>>>

loss_forward(self, p, t) ==
    LET loss == <<Mean(loss_fn(self.loss_fn, p, t))>>
    IN  <<<<loss, LOSS_OUT_TYPE_LOSS>>>>

(* -------------------------------- QHead -------------------------------- *)
\* nn.Dense(units): the input width in_units is 0 until the first forward
Dense(units) == [units |-> units, in_units |-> 0]

\* whether lines 79-82 assign self.num_actions: they do for a box and for a
\* discrete action space and for no other
has_num_actions(spaces) ==
    spaces.kind = "BoxActionSpace" \/ spaces.kind = "DiscreteActionSpace"

\* mutant: the highest action index taken for the number of actions
num_actions_OffByOne(spaces) ==
    IF spaces.kind = "BoxActionSpace" THEN 1 ELSE spaces.actions - 1

\* the value they assign
num_actions(spaces) ==
    IF spaces.kind = "BoxActionSpace" THEN 1 ELSE spaces.actions

\* mutant: the assertion on loss_type left out
QHead_NoAssert(spaces, loss_weight, loss_type) ==
    LET n == num_actions(spaces) IN
    IF ~has_num_actions(spaces)
    THEN [raised |-> "AttributeError", self |-> NoHead]
    ELSE [raised |-> "none",
          self |-> [spaces |-> spaces,
                    loss_weight |-> loss_weight,
                    num_actions |-> n,
                    return_type |-> "QActionStateValue",
                    loss_type |-> loss_type,
                    dense |-> Dense(n)]]

\* the outcome of QHead.__init__: the exception it raises, or the object
QHead(spaces, loss_weight, loss_type) ==
    LET n == num_actions(spaces) IN
    IF ~((loss_type = "L2Loss") \/ (loss_type = "HuberLoss"))
    THEN [raised |-> "AssertionError", self |-> NoHead]
    ELSE IF ~has_num_actions(spaces)
    THEN [raised |-> "AttributeError", self |-> NoHead]
    ELSE [raised |-> "none",
          self |-> [spaces |-> spaces,
                    loss_weight |-> loss_weight,
                    num_actions |-> n,
                    return_type |-> "QActionStateValue",
                    loss_type |-> loss_type,
                    dense |-> Dense(n)]]

\* mutant: the head's loss_weight not passed on (QHeadLoss's default weight)
loss_DefaultWeight(self) == QHeadLoss(self.loss_type, 1, 0)

\* QHead.loss()
loss(self) == QHeadLoss(self.loss_type, self.loss_weight, 0)

\* mutant: the input returned as it came, the dense layer not applied
hybrid_forward_Identity(self, shape) ==
    [raised |-> "none", dense |-> self.dense, out |-> shape]

\* mutant: the layer bound again to the width of every input
hybrid_forward_Rebind(self, shape) ==
    [raised |-> "none", dense |-> [self.dense EXCEPT !.in_units = shape[2]],
     out |-> <<shape[1], self.dense.units>>]

\* self.dense(x) for x of shape <<B, D>>: the layer after the call and the
\* shape of the result, or the backend's shape error
hybrid_forward(self, shape) ==
    LET d == self.dense IN
    IF d.in_units = 0
    THEN [raised |-> "none", dense |-> [d EXCEPT !.in_units = shape[2]],
          out |-> <<shape[1], d.units>>]
    ELSE IF d.in_units = shape[2]
    THEN [raised |-> "none", dense |-> d, out |-> <<shape[1], d.units>>]
    ELSE [raised |-> "MXNetError", dense |-> d, out |-> NoValue]

(* ------------------------------- actions ------------------------------- *)
Init ==
    /\ head = NoHead
    /\ losses = <<>>
    /\ batch = NoValue
    /\ call = [op |-> "none"]
    /\ ret = NoValue
    /\ raised = "none"

Construct(spaces, loss_weight, loss_type) ==
    /\ head = NoHead
    /\ LET r == QHead(spaces, loss_weight, loss_type) IN
         /\ head' = r.self
         /\ raised' = r.raised
    /\ call' = [op |-> "QHead", spaces |-> spaces, loss_weight |-> loss_weight,
                loss_type |-> loss_type]
    /\ ret' = NoValue
    /\ UNCHANGED <<losses, batch>>

Forward(shape) ==
    /\ head # NoHead
    /\ LET r == hybrid_forward(head, shape) IN
         /\ head' = [head EXCEPT !.dense = r.dense]
         /\ raised' = r.raised
         /\ ret' = r.out
    /\ call' = [op |-> "forward", x |-> shape]
    /\ UNCHANGED <<losses, batch>>

MakeLoss ==
    /\ head # NoHead
    /\ Len(losses) < MaxLosses
    /\ losses' = Append(losses, loss(head))
    /\ call' = [op |-> "loss"]
    /\ ret' = Len(losses) + 1
    /\ raised' = "none"
    /\ UNCHANGED <<head, batch>>

Compute(i, p, t) ==
    /\ i \in 1..Len(losses)
    /\ ret' = loss_forward(losses[i], p, t)
    /\ call' = [op |-> "compute", i |-> i, pred |-> p, target |-> t]
    /\ raised' = "none"
    /\ UNCHANGED <<head, losses, batch>>

\* a loss of the head applied to predictions of the head: tensors of shape
\* (batch_size, num_actions).  Here every element of pred is the same; the
\* per-element cases are those of SpecLoss.
ComputeOnHead ==
    /\ head # NoHead
    /\ \E i \in 1..Len(losses), B \in 1..MaxBatch :
         \E p \in UniformTensors(<<B, head.num_actions>>, PredVals) :
           \E t \in Targets(<<B, head.num_actions>>, p) : Compute(i, p, t)

InputSchema(i) ==
    /\ i \in 1..Len(losses)
    /\ ret' = input_schema(losses[i])
    /\ call' = [op |-> "input_schema", i |-> i]
    /\ raised' = "none"
    /\ UNCHANGED <<head, losses, batch>>

Next ==
    \/ \E s \in ActionSpaces, w \in Weights, lt \in LossTypes : Construct(s, w, lt)
    \/ \E shape \in (1..MaxBatch) \X (1..MaxWidth) : Forward(shape)
    \/ MakeLoss
    \/ ComputeOnHead

Spec == Init /\ [][Next]_vars

(* ------------- the loss block on its own, any configuration ------------ *)
\* a QHeadLoss of any loss type, weight and batch axis, and a trainer holding
\* any batch
InitLoss ==
    /\ head = NoHead
    /\ \E lt \in LossTypes, w \in Weights, ba \in BatchAxes :
         losses = <<QHeadLoss(lt, w, ba)>>
    /\ batch \in Batches
    /\ call = [op |-> "QHeadLoss"]
    /\ ret = NoValue
    /\ raised = "none"

ComputeBatch == Compute(1, batch.pred, batch.target)

NextLoss ==
    \/ ComputeBatch
    \/ InputSchema(1)

SpecLoss == InitLoss /\ [][NextLoss]_vars

(* ------------------------------- claims -------------------------------- *)
Supported(loss_type) == loss_type \in {"L2Loss", "HuberLoss"}

Constructed == call.op = "QHead"
Forwarded == call.op = "forward"
Computed == call.op = "compute"

\* C1: constructing a QHead with a loss_type other than L2Loss and HuberLoss
\* raises, whatever the action space and the loss weight, and leaves no QHead
\* object; with a supported loss_type the loss_type check does not fail.
C1_UnsupportedLossTypeRejected ==
    Constructed =>
        /\ ~Supported(call.loss_type) => (raised # "none" /\ head = NoHead)
        /\ Supported(call.loss_type) => raised # "AssertionError"

C1_Witness ==
    /\ Constructed
    /\ call.loss_type = "L1Loss"
    /\ call.spaces.kind = "DiscreteActionSpace"
    /\ raised = "AssertionError"
    /\ head = NoHead

\* C2: every output of forward on an input of shape [B, D] has shape
\* [B, num_actions], num_actions being the number of actions of a discrete
\* action space and 1 for a box action space; forward fails to return only
\* when D differs from the width the layer is already bound to.
C2_ForwardShape ==
    Forwarded =>
        /\ raised = "none" =>
             /\ Len(ret) = 2
             /\ ret[1] = call.x[1]
             /\ ret[2] = (IF head.spaces.kind = "DiscreteActionSpace"
                          THEN head.spaces.actions ELSE 1)
        /\ raised # "none" => head.dense.in_units \notin {0, call.x[2]}

C2_Witness ==
    /\ Forwarded
    /\ raised = "none"
    /\ head.spaces = [kind |-> "DiscreteActionSpace", actions |-> MaxActions]
    /\ call.x = <<MaxBatch, MaxWidth>>
    /\ ret = <<MaxBatch, MaxActions>>

\* C3: input_schema of every QHeadLoss, whatever its loss_type, weight and
\* batch_axis, and whatever calls preceded, is head-outputs ["pred"],
\* agent-inputs [], targets ["target"].
ExpectedSchema ==
    [head_outputs |-> <<"pred">>, agent_inputs |-> <<>>, targets |-> <<"target">>]

C3_InputSchemaFixed ==
    /\ \A i \in 1..Len(losses) : input_schema(losses[i]) = ExpectedSchema
    /\ call.op = "input_schema" => ret = ExpectedSchema

C3_Witness ==
    /\ call.op = "input_schema"
    /\ ret = ExpectedSchema
    /\ losses[1].loss_fn.kind = "HuberLoss"
    /\ losses[1].batch_axis = 1
    /\ losses[1].weight = MaxWeight

\* the sum of the elementwise losses of the last compute call
TotalLoss ==
    LET l == losses[call.i].loss_fn
        p == call.pred
        t == call.target
        K == Len(p[1])
        flat == [n \in 1..(Len(p) * K) |->
                    Elementwise(l.kind, l.weight,
                                p[((n - 1) \div K) + 1][((n - 1) % K) + 1],
                                t[((n - 1) \div K) + 1][((n - 1) % K) + 1])]
    IN  FSum(flat)

C5_ZeroLossOnEqual ==
    (Computed /\ call.pred = call.target /\ Supported(losses[call.i].loss_fn.kind))
        => ret[1][1] = <<<<0, 1>>>>

C5_Witness ==
    /\ Computed
    /\ call.pred = call.target
    /\ losses[call.i].loss_fn.kind = "HuberLoss"
    /\ losses[call.i].weight = MaxWeight
    /\ Len(call.pred) = MaxBatch
    /\ Len(call.pred[1]) = MaxActions
    /\ ret[1][1] = <<<<0, 1>>>>

\* C6: compute returns a list of exactly one (value, tag) pair and the tag is
\* LOSS_OUT_TYPE_LOSS.
C6_SingleLossTag ==
    Computed =>
        /\ Len(ret) = 1
        /\ Len(ret[1]) = 2
        /\ ret[1][2] = LOSS_OUT_TYPE_LOSS

C6_Witness ==
    /\ Computed
    /\ losses[call.i].loss_fn.kind = "L1Loss"
    /\ losses[call.i].batch_axis = 1
    /\ ret[1][2] = LOSS_OUT_TYPE_LOSS

\* C7: the objects loss() returns are separate QHeadLoss objects, each with
\* the head's loss_type and loss_weight (and the default batch axis); on the
\* inputs of any compute call every one of them returns the same result; and
\* no call of loss or compute changes an existing loss object or the head.
C7_LossObjectsAgree ==
    /\ \A i \in 1..Len(losses) :
         /\ losses[i].loss_fn.kind = head.loss_type
         /\ losses[i].weight = head.loss_weight
         /\ losses[i].loss_fn.weight = head.loss_weight
         /\ losses[i].batch_axis = 0
    /\ Computed =>
         \A j \in 1..Len(losses) : loss_forward(losses[j], call.pred, call.target) = ret

C7_NoSharedState ==
    call'.op \in {"loss", "compute"} =>
        /\ head' = head
        /\ Len(losses') >= Len(losses)
        /\ \A i \in 1..Len(losses) : losses'[i] = losses[i]

C7_IndependentLosses == []C7_LossObjectsAgree /\ [][C7_NoSharedState]_vars

C7_Witness ==
    /\ Computed
    /\ Len(losses) = 2
    /\ call.i = 2
    /\ head.loss_type = "HuberLoss"
    /\ head.loss_weight = MaxWeight
    /\ call.pred # call.target
    /\ loss_forward(losses[1], call.pred, call.target) = ret

\* C8: with a supported loss_type, construction succeeds for every action
\* space and yields a QHead with num_actions defined.
C8_OnlyLossTypeRejected ==
    (Constructed /\ Supported(call.loss_type)) =>
        /\ raised = "none"
        /\ head # NoHead
        /\ head.num_actions \in Nat

\* C9: a constructed QHead has num_actions >= 1, and num_actions, loss_weight
\* and loss_type keep their values through every later call.
C9_Positive == head # NoHead => head.num_actions >= 1

C9_Fixed ==
    head # NoHead =>
        /\ head' # NoHead
        /\ head'.num_actions = head.num_actions
        /\ head'.loss_weight = head.loss_weight
        /\ head'.loss_type = head.loss_type

C10_UnboundAfterConstruction ==
    (Constructed /\ head # NoHead) => head.dense.in_units = 0

C10_OneWay ==
    head # NoHead =>
        /\ head.dense.in_units # 0 => head'.dense = head.dense
        /\ call'.op # "forward" => head'.dense = head.dense
        /\ (call'.op = "forward" /\ head.dense.in_units = 0) =>
             (raised' = "none" /\ head'.dense.in_units = call'.x[2])
        /\ (call'.op = "forward" /\ head.dense.in_units = call'.x[2]) =>
             (raised' = "none" /\ ret' = <<call'.x[1], head.num_actions>>)

C10_BindingOneWay == []C10_UnboundAfterConstruction /\ [][C10_OneWay]_vars

C10_Witness ==
    /\ Forwarded
    /\ raised = "MXNetError"
    /\ head.dense.in_units = 1
    /\ call.x = <<MaxBatch, MaxWidth>>
    /\ Len(losses) > 0

====
